---------------------------- MODULE Spec2Model ----------------------------
(***************************************************************************)
(* Model of sc_log_analyzer (src/src/main.rs): the log ingestor            *)
(* (parse_log / parse_line and the seven grammars), the refresh            *)
(* coordinator (LogApp::reload / LogApp::maybe_refresh) and the profile    *)
(* lookup cache (open_player_info / poll_player_info_responses).           *)
(*                                                                         *)
(* Text is modelled as sequences of one-character strings, so that trim    *)
(* and ASCII lower-casing are computed.  Option<T> is modelled as a        *)
(* sequence of length 0 (None) or 1 (Some).                                *)
(***************************************************************************)
EXTENDS Integers, Sequences, FiniteSets, TLC

VARIABLES
    file,                  \* the log file on disk: status, content (lines), mtime
    file_path_input,       \* LogApp.file_path_input
    events,                \* LogApp.events
    ignored_player,        \* LogApp.ignored_player
    ignored_player_user_override,
    load_error,            \* LogApp.load_error : Option<String>
    last_modified,         \* LogApp.last_modified : Option<SystemTime>
    elapsed,               \* LogApp.last_auto_check.elapsed(), saturated at the interval
    filter_show,           \* the seven filter_show_* flags, by event kind
    search_text,           \* LogApp.search_text
    rendered,              \* the list filtered_events returned to the last rendering pass
    player_info_cache,     \* LogApp.player_info_cache : key -> entry
    player_info_window,    \* LogApp.player_info_window : Option<key>
    workers,               \* the running lookup threads (spawn_player_info_request), oldest first
    channel,               \* responses queued on player_info_tx / player_info_rx
    pc,                    \* position of the UI thread inside reload
    ingested,              \* history: the lines the current event list was built from
    ran_parse,             \* history: the last step called parse_log
    last_op                \* history: the operation that took the last step

fsVars   == <<file>>
appVars  == <<file_path_input, events, ignored_player, ignored_player_user_override,
              load_error, last_modified, elapsed, pc, ingested>>
viewVars == <<filter_show, search_text, rendered>>
profVars == <<player_info_cache, player_info_window, workers, channel>>
histVars == <<ran_parse, last_op>>
vars     == <<fsVars, appVars, viewVars, profVars, histVars>>

----------------------------------------------------------------------------
(* Bounds of the model *)

\* the longest file given to parse_log in ParseSpec
MaxLen == 3
\* the number of appends of the external writer in Spec and SyncSpec
MaxWrites == 2
\* cap on profile requests in flight (threads plus queued responses)
MaxOutstanding == 3

\* LogApp::new: auto_refresh_interval = Duration::from_secs(2)
AUTO_REFRESH_INTERVAL == 2

----------------------------------------------------------------------------
(* Option and text helpers *)

None == <<>>
Some(x) == <<x>>

Range(s) == {s[i] : i \in 1..Len(s)}

Front(s) == SubSeq(s, 1, Len(s) - 1)

Last(s) == s[Len(s)]

Reverse(s) == [i \in 1..Len(s) |-> s[Len(s) + 1 - i]]

IsWhitespace(c) == c = " "

RECURSIVE TrimStart(_)
TrimStart(s) ==
    IF s # <<>> /\ IsWhitespace(Head(s)) THEN TrimStart(Tail(s)) ELSE s

RECURSIVE TrimEnd(_)
TrimEnd(s) ==
    IF s # <<>> /\ IsWhitespace(Last(s)) THEN TrimEnd(Front(s)) ELSE s

\* str::trim
Trim(s) == TrimEnd(TrimStart(s))

\* char::to_ascii_lowercase, on the letters the model uses
LowerChar(c) ==
    CASE c = "A" -> "a"
      [] c = "B" -> "b"
      [] c = "D" -> "d"
      [] c = "K" -> "k"
      [] c = "V" -> "v"
      [] OTHER -> c

\* str::to_ascii_lowercase
ToAsciiLowercase(s) == [i \in 1..Len(s) |-> LowerChar(s[i])]

\* str::eq_ignore_ascii_case
EqIgnoreAsciiCase(a, b) == ToAsciiLowercase(a) = ToAsciiLowercase(b)

\* a comparison that never finds the flag equal to the expected text
MatchesNever(value, expected) == FALSE

matches_ignore_case(value, expected) == EqIgnoreAsciiCase(value, expected)

canonical_player_key(name) == ToAsciiLowercase(Trim(name))

----------------------------------------------------------------------------
(* Log lines.                                                              *)
(*                                                                         *)
(* A raw line is the record [ts, segs, nick]:                              *)
(*   ts   : Option of the leading "<...>" token; a token is                *)
(*          [valid, local, off], an RFC 3339 date-time (local clock        *)
(*          reading and UTC offset) when valid;                            *)
(*   segs : the grammar-shaped fragments the text holds, each a record     *)
(*          with a form and the text of its capture groups (an optional    *)
(*          group that is absent is None, a present one Some(text));       *)
(*   nick : Option of the text of a nickname="..." token.                  *)
(* Two lines are byte-identical exactly when the records are equal.        *)
(***************************************************************************)

\* a parser that reads every token as a date-time
ParseTimestampLenient(tok) == Some(tok.local - tok.off)

\* chrono::DateTime::parse_from_rfc3339(raw).map(with_timezone(Utc)).ok()
parse_timestamp(tok) ==
    IF tok.valid THEN Some(tok.local - tok.off) ELSE None

\* the fragment of the line that a grammar's pattern would match on
Seg(line, form) ==
    IF \E s \in line.segs : s.form = form
    THEN Some(CHOOSE s \in line.segs : s.form = form)
    ELSE None

\* Option<Match>.map(as_str).unwrap_or_default()
UnwrapOrDefault(opt) == IF opt = None THEN <<>> ELSE opt[1]

\* an optional group whose class is [^x]+ : absent, or present and non-empty
OptNonEmpty(opt) == opt = None \/ opt[1] # <<>>

\* the pattern of parse_actor_death
KillMatches(s) ==
    /\ s.victim # <<>> /\ s.victim_id # <<>>
    /\ OptNonEmpty(s.zone)
    /\ s.killer # <<>> /\ s.killer_id # <<>>
    /\ (s.weapon = None => s.weapon_class = None)
    /\ OptNonEmpty(s.weapon_class)
    /\ s.damage # None /\ s.damage[1] # <<>>

parse_actor_death(line) ==
    LET m == Seg(line, "Kill") IN
    IF line.ts = None \/ m = None THEN None
    ELSE IF ~KillMatches(m[1]) THEN None
    ELSE LET t == parse_timestamp(line.ts[1])
             s == m[1] IN
         IF t = None THEN None
         ELSE Some([timestamp |-> t[1],
                    kind |-> [tag |-> "Kill",
                              victim_name |-> s.victim,
                              victim_id |-> s.victim_id,
                              killer_name |-> s.killer,
                              killer_id |-> s.killer_id,
                              weapon |-> UnwrapOrDefault(s.weapon),
                              weapon_class |-> UnwrapOrDefault(s.weapon_class),
                              damage_type |-> UnwrapOrDefault(s.damage),
                              zone |-> UnwrapOrDefault(s.zone)],
                    raw |-> line])

\* the pattern of parse_spawn_reservation
SpawnMatches(s) ==
    /\ s.player # <<>> /\ s.player_id # <<>>
    /\ s.spawnpoint # <<>> /\ s.spawn_id # <<>> /\ s.location # <<>>

parse_spawn_reservation(line) ==
    LET m == Seg(line, "Spawn") IN
    IF line.ts = None \/ m = None THEN None
    ELSE IF ~SpawnMatches(m[1]) THEN None
    ELSE LET t == parse_timestamp(line.ts[1])
             s == m[1] IN
         IF t = None THEN None
         ELSE Some([timestamp |-> t[1],
                    kind |-> [tag |-> "SpawnReservation",
                              player_name |-> Trim(s.player),
                              player_id |-> s.player_id,
                              spawn_point |-> Trim(s.spawnpoint),
                              spawn_id |-> s.spawn_id,
                              location |-> s.location],
                    raw |-> line])

\* the pattern of parse_corpse_status: the flag group is (Yes|No), as written
CorpseMatches(s) ==
    /\ s.player # <<>>
    /\ OptNonEmpty(s.context)
    /\ s.enabled \in {<<"Y", "e", "s">>, <<"N", "o">>}

parse_corpse_status(line) ==
    LET m == Seg(line, "Corpse") IN
    IF line.ts = None \/ m = None THEN None
    ELSE IF ~CorpseMatches(m[1]) THEN None
    ELSE LET t == parse_timestamp(line.ts[1])
             s == m[1]
             corpse_enabled == matches_ignore_case(s.enabled, <<"Y", "e", "s">>)
             context == IF s.context = None \/ Trim(s.context[1]) = <<>>
                        THEN None ELSE Some(Trim(s.context[1])) IN
         IF t = None THEN None
         ELSE IF corpse_enabled THEN None
         ELSE Some([timestamp |-> t[1],
                    kind |-> [tag |-> "CorpseStatus",
                              player_name |-> Trim(s.player),
                              context |-> context,
                              corpse_enabled |-> corpse_enabled],
                    raw |-> line])

\* the pattern of parse_zone_transfer
ZoneMatches(s) ==
    /\ s.child_id # <<>> /\ s.player # <<>>
    /\ s.parent_id # <<>> /\ s.parent_name # <<>>
    /\ s.host_id # <<>> /\ s.host_name # <<>>

parse_zone_transfer(line) ==
    LET m == Seg(line, "Zone") IN
    IF line.ts = None \/ m = None THEN None
    ELSE IF ~ZoneMatches(m[1]) THEN None
    ELSE LET t == parse_timestamp(line.ts[1])
             s == m[1] IN
         IF t = None THEN None
         ELSE IF s.player = <<>> THEN None
         ELSE Some([timestamp |-> t[1],
                    kind |-> [tag |-> "ZoneTransfer",
                              player_name |-> s.player,
                              child_id |-> Some(s.child_id),
                              parent_id |-> Some(s.parent_id),
                              parent_name |-> Some(s.parent_name),
                              host_id |-> Some(s.host_id),
                              host_name |-> Some(s.host_name)],
                    raw |-> line])

\* the pattern of parse_status_effect
StatusMatches(s) ==
    /\ s.stage \in {<<"s", "t", "a", "r", "t">>, <<"e", "n", "d">>}
    /\ s.nickname # <<>> /\ s.effect # <<>>

parse_status_effect(line) ==
    LET m == Seg(line, "Status") IN
    IF line.ts = None \/ m = None THEN None
    ELSE IF ~StatusMatches(m[1]) THEN None
    ELSE LET t == parse_timestamp(line.ts[1])
             s == m[1] IN
         IF t = None THEN None
         ELSE Some([timestamp |-> t[1],
                    kind |-> [tag |-> "StatusEffect",
                              player_name |-> Trim(s.nickname),
                              effect |-> Trim(s.effect),
                              stage |-> ToAsciiLowercase(Trim(s.stage))],
                    raw |-> line])

\* the pattern of parse_hit_event
HitMatches(s) ==
    /\ s.attacker # <<>> /\ \A i \in 1..Len(s.attacker) : ~IsWhitespace(s.attacker[i])
    /\ s.target # <<>> /\ \A i \in 1..Len(s.target) : s.target[i] # "."
    /\ s.child # <<>>

parse_hit_event(line) ==
    LET m == Seg(line, "Hit") IN
    IF line.ts = None \/ m = None THEN None
    ELSE IF ~HitMatches(m[1]) THEN None
    ELSE LET t == parse_timestamp(line.ts[1])
             s == m[1] IN
         IF t = None THEN None
         ELSE Some([timestamp |-> t[1],
                    kind |-> [tag |-> "Hit",
                              attacker |-> s.attacker,
                              target |-> Trim(s.target),
                              child |-> IF Trim(s.child) = <<>> THEN None
                                        ELSE Some(Trim(s.child))],
                    raw |-> line])

\* the pattern of parse_vehicle_destruction: every quoted group is [^']+
VehicleMatches(s) ==
    /\ s.vehicle # <<>> /\ s.vehicle_id # <<>> /\ s.zone # <<>>
    /\ s.driver # <<>> /\ s.driver_id # <<>>
    /\ s.attacker # <<>> /\ s.attacker_id # <<>> /\ s.cause # <<>>

parse_vehicle_destruction(line) ==
    LET m == Seg(line, "Vehicle") IN
    IF line.ts = None \/ m = None THEN None
    ELSE IF ~VehicleMatches(m[1]) THEN None
    ELSE LET t == parse_timestamp(line.ts[1])
             s == m[1] IN
         IF t = None THEN None
         ELSE Some([timestamp |-> t[1],
                    kind |-> [tag |-> "VehicleDestruction",
                              vehicle_name |-> s.vehicle,
                              vehicle_id |-> s.vehicle_id,
                              zone |-> s.zone,
                              driver_name |-> s.driver,
                              driver_id |-> s.driver_id,
                              from_level |-> s.from,
                              to_level |-> s.to,
                              attacker_name |-> s.attacker,
                              attacker_id |-> s.attacker_id,
                              cause |-> s.cause],
                    raw |-> line])

\* Option::or_else
OrElse(a, b) == IF a # None THEN a ELSE b

parse_line(line) ==
    OrElse(parse_actor_death(line),
    OrElse(parse_spawn_reservation(line),
    OrElse(parse_corpse_status(line),
    OrElse(parse_zone_transfer(line),
    OrElse(parse_status_effect(line),
    OrElse(parse_hit_event(line),
           parse_vehicle_destruction(line)))))))

extract_nickname(line) == line.nick

----------------------------------------------------------------------------
(* parse_log *)

\* a read loop that never suppresses a line
IsDuplicateNever(evs, event) == FALSE

\* a read loop that suppresses a line equal to any accepted event (a global set)
IsDuplicateOfAny(evs, event) == \E i \in 1..Len(evs) : evs[i].raw = event.raw

\* the duplicate test of the read loop: events.last().raw == event.raw
IsDuplicate(evs, event) ==
    IF evs = <<>> THEN FALSE ELSE Last(evs).raw = event.raw

\* one iteration of the read loop on the accumulators (events, primary_nickname)
ReadLine(acc, line) ==
    LET nick == IF acc.primary_nickname = None /\ extract_nickname(line) # None
                THEN extract_nickname(line)
                ELSE acc.primary_nickname
        parsed == parse_line(line)
        evs == IF parsed # None /\ ~IsDuplicate(acc.events, parsed[1])
               THEN Append(acc.events, parsed[1])
               ELSE acc.events
    IN  [events |-> evs, primary_nickname |-> nick]

\* the read loop over the whole file, first line first.  (Here and below,
\* "CHOOSE r \in {F(x) : x \in {e}} : TRUE" is F(e) with e evaluated once.)
RECURSIVE ReadLoop(_)
ReadLoop(lines) ==
    IF lines = <<>>
    THEN [events |-> <<>>, primary_nickname |-> None]
    ELSE CHOOSE r \in {ReadLine(acc, Last(lines)) :
                          acc \in {ReadLoop(Front(lines))}} : TRUE

\* a sort that puts an element before those of equal key (not stable)
InsertBeforeEqual(s, e) ==
    LET n == Cardinality({i \in 1..Len(s) : s[i].timestamp < e.timestamp})
    IN  SubSeq(s, 1, n) \o <<e>> \o SubSeq(s, n + 1, Len(s))

\* where a stable ascending sort puts an element that arrives after those of s
InsertByKey(s, e) ==
    LET n == Cardinality({i \in 1..Len(s) : s[i].timestamp <= e.timestamp})
    IN  SubSeq(s, 1, n) \o <<e>> \o SubSeq(s, n + 1, Len(s))

\* events.sort_by_key(|event| event.timestamp): stable, ascending
RECURSIVE SortByKey(_)
SortByKey(evs) ==
    IF evs = <<>> THEN <<>>
    ELSE CHOOSE r \in {InsertByKey(s, Last(evs)) :
                          s \in {SortByKey(Front(evs))}} : TRUE

\* the order of the returned list: sort_by_key, then reverse
OrderEvents(evs) ==
    CHOOSE r \in {Reverse(s) : s \in {SortByKey(evs)}} : TRUE

\* parse_log on a file that opens and reads: Ok(ParsedLog)
ParseLines(lines) ==
    CHOOSE r \in {[events |-> OrderEvents(acc.events),
                   primary_nickname |-> acc.primary_nickname] :
                      acc \in {ReadLoop(lines)}} : TRUE

\* parse_log(path): Err when the file cannot be opened or read
parse_log(f) ==
    IF f.status = "ok"
    THEN [ok |-> TRUE, parsed |-> ParseLines(f.content)]
    ELSE [ok |-> FALSE, err |-> "Failed to open"]

----------------------------------------------------------------------------
(* The lines and path texts the model draws from *)

Tok(local, off) == [valid |-> TRUE, local |-> local, off |-> off]

BadTok == [valid |-> FALSE, local |-> 0, off |-> 0]

KillSeg(victim, killer) ==
    [form |-> "Kill", victim |-> victim, victim_id |-> <<"1">>,
     killer |-> killer, killer_id |-> <<"2">>,
     zone |-> None, weapon |-> None, weapon_class |-> None,
     damage |-> Some(<<"d">>)]

CorpseSeg(player, enabled) ==
    [form |-> "Corpse", player |-> player, context |-> None, enabled |-> enabled]

\* <..02:00Z> ... CActor::Kill: 'b' [1] killed by 'A' [2] with damage type 'd'
LineKillLate == [ts |-> Some(Tok(2, 0)), segs |-> {KillSeg(<<"b">>, <<"A">>)}, nick |-> None]

\* <..03:00+01:00> Player 'a': IsCorpseEnabled: No   (the same instant as LineKillLate)
LineCorpseNo == [ts |-> Some(Tok(3, 1)), segs |-> {CorpseSeg(<<"a">>, <<"N", "o">>)}, nick |-> None]

\* <..01:00Z> ... CActor::Kill: 'A' [1] killed by 'b' [2] with damage type 'd'
LineKillEarly == [ts |-> Some(Tok(1, 0)), segs |-> {KillSeg(<<"A">>, <<"b">>)}, nick |-> None]

\* <..01:00Z> ... nickname=" b"   (matches no grammar)
LineNick == [ts |-> Some(Tok(1, 0)), segs |-> {}, nick |-> Some(<<" ", "b">>)]

\* a Kill-shaped line whose leading token is no RFC 3339 date-time
LineBadTs == [ts |-> Some(BadTok), segs |-> {KillSeg(<<"b">>, <<"A">>)}, nick |-> None]

\* <..02:00Z> Player 'a': IsCorpseEnabled: Yes
LineCorpseYes == [ts |-> Some(Tok(2, 0)), segs |-> {CorpseSeg(<<"a">>, <<"Y", "e", "s">>)}, nick |-> None]

LineSet == {LineKillLate, LineCorpseNo, LineKillEarly, LineNick, LineBadTs, LineCorpseYes}

\* the lines the external writer appends in Spec and SyncSpec
WriterLines == {LineKillLate, LineNick}

\* all sequences over S of length at most n
BoundedSeq(S, n) == UNION {[1..k -> S] : k \in 0..n}

PathGame == <<"g">>

PathBlankQuoted == <<"'", " ", "'">>

PathBlank == <<" ">>

PathInputs == {PathGame, PathBlankQuoted, PathBlank}

----------------------------------------------------------------------------
(* LogApp: path resolution, construction, reload *)

\* trimmed.strip_prefix(q).and_then(|rest| rest.strip_suffix(q))
StripQuotes(s, q) ==
    IF Len(s) >= 2 /\ s[1] = q /\ s[Len(s)] = q
    THEN Some(SubSeq(s, 2, Len(s) - 1))
    ELSE None

\* a path resolution that trims and leaves quotes in place
ResolveTrimOnly(raw) == Trim(raw)

\* resolve_input_path, up to the home and drive-letter rewriting: the empty
\* sequence is the empty PathBuf, every other result names the log file
resolve_input_path(raw) ==
    LET trimmed == Trim(raw)
        normalized == UnwrapOrDefault(
            OrElse(StripQuotes(trimmed, "\""),
            OrElse(StripQuotes(trimmed, "'"), Some(trimmed))))
    IN  Trim(normalized)

\* Path::exists, fs::metadata: both succeed on a file that cannot be opened
FileExists(f) == f.status # "missing"

\* a reload that takes the nickname whether or not the user has overridden
AutoIgnoredAlways(ignored, override, nickname) ==
    IF nickname # None /\ Trim(nickname[1]) # <<>>
    THEN Trim(nickname[1])
    ELSE ignored

\* reload: the ignored player after Ok(parsed)
AutoIgnored(ignored, override, nickname) ==
    IF ~override /\ nickname # None /\ Trim(nickname[1]) # <<>>
    THEN Trim(nickname[1])
    ELSE ignored

\* a reload that adds the parsed events to the list it holds
AppendedEvents(previous, parsed) == previous \o parsed.events

\* reload: the event list after Ok(parsed) replaces the previous one
LoadedEvents(previous, parsed) == parsed.events

\* reload: the event list after Err(err)
EventsAfterError(previous) == <<>>

\* reload from its start to the end of the match on parse_log(&path); the
\* metadata read of the Ok arm is the next step of the UI thread (ReloadStat).
\* base is what last_auto_check.elapsed() is if this part does not reset it.
Reload(base) ==
    LET path == resolve_input_path(file_path_input) IN
    IF path = <<>>
    THEN /\ events' = <<>>
         /\ load_error' = Some("No log file selected.")
         /\ last_modified' = None
         /\ elapsed' = base
         /\ ingested' = <<>>
         /\ ran_parse' = FALSE
         /\ UNCHANGED <<file_path_input, ignored_player, ignored_player_user_override, pc>>
    ELSE LET r == parse_log(file) IN
         /\ ran_parse' = TRUE
         /\ IF r.ok
            THEN /\ events' = LoadedEvents(events, r.parsed)
                 /\ ignored_player' = AutoIgnored(ignored_player,
                                                  ignored_player_user_override,
                                                  r.parsed.primary_nickname)
                 /\ load_error' = None
                 /\ pc' = "stat"
                 /\ elapsed' = base
                 /\ ingested' = file.content
                 /\ UNCHANGED <<file_path_input, ignored_player_user_override,
                                last_modified>>
            ELSE /\ events' = EventsAfterError(events)
                 /\ load_error' = Some(r.err)
                 /\ elapsed' = 0
                 /\ ingested' = <<>>
                 /\ UNCHANGED <<file_path_input, ignored_player,
                                ignored_player_user_override, last_modified, pc>>

\* the Reload button, or Enter in the path field
ReloadClick ==
    /\ pc = "idle"
    /\ Reload(elapsed)
    /\ last_op' = "click"
    /\ UNCHANGED <<fsVars, viewVars, profVars>>

\* a reload that forgets the modification time when the metadata read fails
ModifiedOrNone(previous, f) ==
    IF FileExists(f) THEN Some(f.mtime) ELSE None

\* reload, Ok arm: if let Ok(metadata) = fs::metadata(&path) { last_modified =
\* metadata.modified().ok() }
ModifiedAfterParse(previous, f) ==
    IF FileExists(f) THEN Some(f.mtime) ELSE previous

\* reload, Ok arm: the metadata read, save_last_log_path, last_auto_check = now
ReloadStat ==
    /\ pc = "stat"
    /\ last_modified' = ModifiedAfterParse(last_modified, file)
    /\ elapsed' = 0
    /\ pc' = "idle"
    /\ ran_parse' = FALSE
    /\ last_op' = "stat"
    /\ UNCHANGED <<file_path_input, events, ignored_player,
                   ignored_player_user_override, load_error, ingested>>
    /\ UNCHANGED <<fsVars, viewVars, profVars>>

\* a maybe_refresh that also reloads on an unchanged modification time
ChangedOrSame(previous, modified) == previous = None \/ modified >= previous[1]

\* maybe_refresh: modified > previous, or no previous
Changed(previous, modified) == previous = None \/ modified > previous[1]

\* maybe_refresh: the interval test
IntervalElapsed(e) == ~(e < AUTO_REFRESH_INTERVAL)

\* maybe_refresh, called once per UI cycle by update
MaybeRefresh ==
    /\ pc = "idle"
    /\ last_op' = "tick"
    /\ IF ~IntervalElapsed(elapsed)
       THEN /\ ran_parse' = FALSE
            /\ UNCHANGED appVars
       ELSE IF resolve_input_path(file_path_input) = <<>> \/ ~FileExists(file)
       THEN /\ elapsed' = 0
            /\ ran_parse' = FALSE
            /\ UNCHANGED <<file_path_input, events, ignored_player,
                           ignored_player_user_override, load_error,
                           last_modified, pc, ingested>>
       ELSE IF Changed(last_modified, file.mtime)
       THEN Reload(0)
       ELSE /\ elapsed' = 0
            /\ ran_parse' = FALSE
            /\ UNCHANGED <<file_path_input, events, ignored_player,
                           ignored_player_user_override, load_error,
                           last_modified, pc, ingested>>
    /\ UNCHANGED <<fsVars, viewVars, profVars>>

\* the user edits the path field (no reload until Enter or Reload)
EditPath ==
    /\ pc = "idle"
    /\ \E p \in PathInputs : p # file_path_input /\ file_path_input' = p
    /\ ran_parse' = FALSE
    /\ last_op' = "edit"
    /\ UNCHANGED <<events, ignored_player, ignored_player_user_override,
                   load_error, last_modified, elapsed, pc, ingested>>
    /\ UNCHANGED <<fsVars, viewVars, profVars>>

\* time passes: Instant::now() moves on
Advance ==
    /\ elapsed < AUTO_REFRESH_INTERVAL
    /\ elapsed' = elapsed + 1
    /\ ran_parse' = FALSE
    /\ last_op' = "time"
    /\ UNCHANGED <<file_path_input, events, ignored_player,
                   ignored_player_user_override, load_error, last_modified,
                   pc, ingested>>
    /\ UNCHANGED <<fsVars, viewVars, profVars>>

----------------------------------------------------------------------------
(* The file system: the game appending to the log, and the file being     *)
(* removed, recreated or made unreadable                                   *)

\* one append by the external writer; every write advances the mtime
AppendTo(f, line) ==
    [f EXCEPT !.content = Append(@, line), !.mtime = @ + 1]

WriteLog ==
    /\ FileExists(file)
    /\ file.mtime <= MaxWrites
    /\ \E l \in WriterLines : file' = AppendTo(file, l)
    /\ ran_parse' = FALSE
    /\ last_op' = "write"
    /\ UNCHANGED <<appVars, viewVars, profVars>>

FsChmod ==
    /\ FileExists(file)
    /\ file' = [file EXCEPT !.status = IF @ = "ok" THEN "unreadable" ELSE "ok"]
    /\ ran_parse' = FALSE
    /\ last_op' = "chmod"
    /\ UNCHANGED <<appVars, viewVars, profVars>>

FsRemove ==
    /\ FileExists(file)
    /\ file' = [file EXCEPT !.status = "missing", !.content = <<>>]
    /\ ran_parse' = FALSE
    /\ last_op' = "remove"
    /\ UNCHANGED <<appVars, viewVars, profVars>>

FsCreate ==
    /\ ~FileExists(file)
    /\ file.mtime <= MaxWrites
    /\ file' = [status |-> "ok", content |-> <<>>, mtime |-> file.mtime + 1]
    /\ ran_parse' = FALSE
    /\ last_op' = "create"
    /\ UNCHANGED <<appVars, viewVars, profVars>>

----------------------------------------------------------------------------
(* Initial states: LogApp::new on a file f, with the ignored player that   *)
(* settings::load_ignored_player returned                                  *)

EventKinds == {"Kill", "SpawnReservation", "CorpseStatus", "ZoneTransfer",
               "StatusEffect", "Hit", "VehicleDestruction"}

NewApp(f, setting) ==
    LET r == parse_log(f) IN
    /\ file = f
    /\ file_path_input = PathGame
    /\ events = IF r.ok THEN LoadedEvents(<<>>, r.parsed) ELSE EventsAfterError(<<>>)
    /\ ignored_player_user_override = (setting # None)
    /\ ignored_player =
          IF r.ok
          THEN AutoIgnored(UnwrapOrDefault(setting), setting # None,
                           r.parsed.primary_nickname)
          ELSE UnwrapOrDefault(setting)
    /\ load_error = IF r.ok THEN None ELSE Some(r.err)
    /\ last_modified = IF r.ok /\ FileExists(f) THEN Some(f.mtime) ELSE None
    /\ elapsed = 0
    /\ filter_show = [k \in EventKinds |-> TRUE]
    /\ search_text = <<>>
    /\ rendered = <<>>
    /\ player_info_cache = [k \in {} |-> None]
    /\ player_info_window = None
    /\ workers = <<>>
    /\ channel = <<>>
    /\ pc = "idle"
    /\ ingested = IF r.ok THEN f.content ELSE <<>>
    /\ ran_parse = FALSE
    /\ last_op = "new"

Init ==
    \E f \in {[status |-> "missing", content |-> <<>>, mtime |-> 1]}
             \cup {[status |-> "ok", content |-> c, mtime |-> 1] :
                      c \in BoundedSeq(WriterLines, 1)} :
    \E setting \in {None, Some(<<"a">>)} :
        NewApp(f, setting)

Next ==
    \/ ReloadClick
    \/ ReloadStat
    \/ MaybeRefresh
    \/ EditPath
    \/ Advance
    \/ WriteLog
    \/ FsChmod
    \/ FsRemove
    \/ FsCreate

Spec == Init /\ [][Next]_vars

----------------------------------------------------------------------------
(* SyncSpec: the file stays present and readable and the path stays set;  *)
(* an external writer appends while the UI thread ticks and reloads.  The  *)
(* UI cycle runs for as long as the application does (update asks for a    *)
(* repaint on every cycle), so the tick, the rest of a started reload and  *)
(* the passing of time are weakly fair; the writer and the user are not.   *)

SyncInit ==
    \E c \in BoundedSeq(WriterLines, 1) :
        NewApp([status |-> "ok", content |-> c, mtime |-> 1], None)

SyncNext ==
    \/ WriteLog
    \/ Advance
    \/ MaybeRefresh
    \/ ReloadClick
    \/ ReloadStat

SyncSpec ==
    /\ SyncInit
    /\ [][SyncNext]_vars
    /\ WF_vars(Advance)
    /\ WF_vars(MaybeRefresh)
    /\ WF_vars(ReloadStat)

----------------------------------------------------------------------------
(* Claims about the refresh coordinator *)

IoError == Some("Failed to open")

\* C1: a reload that fails to open or read a non-empty path leaves the
\* displayed event list as it was (only the error is surfaced).
C1_EventsRetainedOnReadFailure ==
    [][(ran_parse' /\ load_error' = IoError) => events' = events]_vars

\* C3: a poll tick runs the ingestor only if the polling interval has
\* elapsed, the resolved path is non-empty, the file exists, and its
\* modification time is strictly newer than the recorded one or none was
\* recorded.
C3_TickReloadsOnlyWhenDueAndNewer ==
    [][(last_op' = "tick" /\ ran_parse') =>
          /\ elapsed >= AUTO_REFRESH_INTERVAL
          /\ resolve_input_path(file_path_input) # <<>>
          /\ file.status # "missing"
          /\ (last_modified = None \/ file.mtime > last_modified[1])]_vars

\* a tick has just re-ingested a file whose modification time had advanced
\* past a recorded one
C3_Witness ==
    /\ last_op = "tick" /\ ran_parse /\ pc = "stat"
    /\ last_modified # None /\ file.mtime > last_modified[1]

\* C4: after a reload failed with a file-access error, the next tick at which
\* the interval has elapsed runs the ingestor again, whatever modification
\* time is recorded (stated for ticks at which the path is set and the file
\* is present and readable, where the retry can succeed).
C4_FailedReloadRetriedOnNextTick ==
    [][(/\ load_error = IoError
        /\ resolve_input_path(file_path_input) # <<>>
        /\ file.status = "ok"
        /\ elapsed >= AUTO_REFRESH_INTERVAL
        /\ last_op' = "tick") => ran_parse']_vars

\* C5: once the writer stops, the displayed event list eventually equals
\* the ingestion of the file's final content, and stays so.
C5_ViewEventuallySynced ==
    <>[](events = ParseLines(file.content).events)

----------------------------------------------------------------------------
(* The profile lookup cache *)

Unknown == <<"u", "n", "k", "n", "o", "w", "n">>

\* a push_name whose seen set holds the names as spelled
PushNameExactSeen(names, name) ==
    LET trimmed == Trim(name) IN
    IF trimmed = <<>> THEN names
    ELSE IF EqIgnoreAsciiCase(trimmed, Unknown) THEN names
    ELSE IF \E i \in 1..Len(names) : names[i] = trimmed
         THEN names
         ELSE Append(names, trimmed)

\* involved_players: the push_name closure; seen holds the lower-cased names
\* pushed so far
PushName(names, name) ==
    LET trimmed == Trim(name) IN
    IF trimmed = <<>> THEN names
    ELSE IF EqIgnoreAsciiCase(trimmed, Unknown) THEN names
    ELSE IF \E i \in 1..Len(names) :
               ToAsciiLowercase(names[i]) = ToAsciiLowercase(trimmed)
         THEN names
         ELSE Append(names, trimmed)

involved_players(event) ==
    LET k == event.kind IN
    CASE k.tag = "Kill" -> PushName(PushName(<<>>, k.killer_name), k.victim_name)
      [] k.tag = "SpawnReservation" -> PushName(<<>>, k.player_name)
      [] k.tag = "CorpseStatus" -> PushName(<<>>, k.player_name)
      [] k.tag = "ZoneTransfer" -> PushName(<<>>, k.player_name)
      [] k.tag = "StatusEffect" -> PushName(<<>>, k.player_name)
      [] k.tag = "Hit" -> PushName(<<>>, k.attacker)
      [] k.tag = "VehicleDestruction" ->
             PushName(PushName(<<>>, k.attacker_name), k.driver_name)

\* PlayerInfoState
NotLoaded == [tag |-> "NotLoaded", val |-> ""]

Loading == [tag |-> "Loading", val |-> ""]

Loaded(info) == [tag |-> "Loaded", val |-> info]

Error(err) == [tag |-> "Error", val |-> err]

\* what player_info::fetch_player_info may return
FetchResults == {[tag |-> "Success", val |-> "profile"],
                 [tag |-> "Error", val |-> "fetch failed"]}

\* HashMap::entry(key).or_insert(entry)
OrInsert(cache, key, entry) ==
    [k \in (DOMAIN cache) \cup {key} |-> IF k \in DOMAIN cache THEN cache[k] ELSE entry]

\* threads running a fetch for the key plus responses for it not yet drained
Outstanding(key) ==
    Cardinality({i \in 1..Len(workers) : workers[i].key = key})
        + Cardinality({i \in 1..Len(channel) : channel[i].key = key})

\* the cap of the model on requests in flight
RoomForRequest == Len(workers) + Len(channel) < MaxOutstanding

\* an open_player_info that requests whatever the entry's state
ShouldRequestAlways(state) == TRUE

\* open_player_info: matches!(entry.state, NotLoaded | Error(_))
ShouldRequest(state) == state.tag \in {"NotLoaded", "Error"}

\* open_player_info(name), name clicked among a shown event's involved players
OpenPlayerInfo ==
    /\ pc = "idle"
    /\ RoomForRequest
    /\ \E n \in 1..Len(events) :
       \E m \in 1..Len(involved_players(events[n])) :
          LET display == Trim(involved_players(events[n])[m])
              key == canonical_player_key(display)
              inserted == OrInsert(player_info_cache, key,
                                   [display_name |-> display, state |-> NotLoaded])
              should_request == ShouldRequest(inserted[key].state)
          IN  IF display = <<>>
              THEN UNCHANGED profVars
              ELSE /\ player_info_cache' =
                        [inserted EXCEPT ![key] =
                            [display_name |-> display,
                             state |-> IF should_request THEN Loading ELSE @.state]]
                   /\ player_info_window' = Some(key)
                   /\ workers' = IF should_request
                                 THEN Append(workers, [key |-> key, display |-> display])
                                 ELSE workers
                   /\ UNCHANGED channel
    /\ ran_parse' = FALSE
    /\ last_op' = "open"
    /\ UNCHANGED <<fsVars, appVars, viewVars>>

\* a window that offers its button in every state, Loading included
RetryShownAlways(state) == TRUE

\* render_player_info_window: the states that show Refresh, Retry or Load
RetryShown(state) == state.tag \in {"Loaded", "Error", "NotLoaded"}

\* render_player_info_window with the button of the open window clicked
RetryClick ==
    /\ pc = "idle"
    /\ RoomForRequest
    /\ player_info_window # None
    /\ LET key == player_info_window[1] IN
       /\ key \in DOMAIN player_info_cache
       /\ RetryShown(player_info_cache[key].state)
       /\ player_info_cache' = [player_info_cache EXCEPT ![key].state = Loading]
       /\ workers' = Append(workers,
                            [key |-> key,
                             display |-> player_info_cache[key].display_name])
    /\ ran_parse' = FALSE
    /\ last_op' = "retry"
    /\ UNCHANGED <<player_info_window, channel>>
    /\ UNCHANGED <<fsVars, appVars, viewVars>>

\* render_player_info_window with the window closed
CloseWindow ==
    /\ pc = "idle"
    /\ player_info_window # None
    /\ player_info_window' = None
    /\ ran_parse' = FALSE
    /\ last_op' = "close"
    /\ UNCHANGED <<player_info_cache, workers, channel>>
    /\ UNCHANGED <<fsVars, appVars, viewVars>>

\* a lookup thread that ends without a response when the fetch fails
SentOnSuccess(worker, result) ==
    IF result.tag = "Error" THEN <<>>
    ELSE <<[key |-> worker.key, display_name |-> worker.display, result |-> result]>>

\* the closure of spawn_player_info_request: what the thread sends
Sent(worker, result) ==
    <<[key |-> worker.key, display_name |-> worker.display, result |-> result]>>

\* a lookup thread for the key: fetch_player_info returns and the response
\* is sent
WorkerDoneFor(key) ==
    /\ \E i \in 1..Len(workers) :
       \E result \in FetchResults :
          /\ workers[i].key = key
          /\ workers' = SubSeq(workers, 1, i - 1) \o SubSeq(workers, i + 1, Len(workers))
          /\ channel' = channel \o Sent(workers[i], result)
    /\ ran_parse' = FALSE
    /\ last_op' = "done"
    /\ UNCHANGED <<player_info_cache, player_info_window>>
    /\ UNCHANGED <<fsVars, appVars, viewVars>>

\* one of the lookup threads
WorkerDone ==
    \E key \in {workers[i].key : i \in 1..Len(workers)} : WorkerDoneFor(key)

\* a loop body that inserts a missing entry and leaves an existing one alone
ApplyResponseIfAbsent(cache, message) ==
    OrInsert(cache, message.key,
             [display_name |-> message.display_name,
              state |-> IF message.result.tag = "Success"
                        THEN Loaded(message.result.val)
                        ELSE Error(message.result.val)])

\* a loop body that writes the result of the message into every entry
ApplyResponseToAll(cache, message) ==
    [k \in (DOMAIN cache) \cup {message.key} |->
        [display_name |-> IF k = message.key THEN message.display_name
                          ELSE cache[k].display_name,
         state |-> IF message.result.tag = "Success"
                   THEN Loaded(message.result.val)
                   ELSE Error(message.result.val)]]

\* poll_player_info_responses: the body of the loop for one message
ApplyResponse(cache, message) ==
    [OrInsert(cache, message.key,
              [display_name |-> message.display_name, state |-> NotLoaded])
        EXCEPT ![message.key] =
            [display_name |-> message.display_name,
             state |-> IF message.result.tag = "Success"
                       THEN Loaded(message.result.val)
                       ELSE Error(message.result.val)]]

\* poll_player_info_responses: the loop over the queued messages, oldest first
RECURSIVE Drain(_, _)
Drain(cache, messages) ==
    IF messages = <<>> THEN cache
    ELSE CHOOSE r \in {Drain(c, Tail(messages)) :
                          c \in {ApplyResponse(cache, Head(messages))}} : TRUE

\* poll_player_info_responses, called once per UI cycle by update
PollPlayerInfoResponses ==
    /\ pc = "idle"
    /\ channel # <<>>
    /\ player_info_cache' = Drain(player_info_cache, channel)
    /\ channel' = <<>>
    /\ ran_parse' = FALSE
    /\ last_op' = "poll"
    /\ UNCHANGED <<player_info_window, workers>>
    /\ UNCHANGED <<fsVars, appVars, viewVars>>

\* ProfileSpec: the application shows a loaded file; the user clicks names
\* and buttons while lookup threads finish and the UI cycle drains.
ProfileInit ==
    \E c \in {<<LineKillLate>>, <<LineKillLate, LineCorpseNo>>} :
        NewApp([status |-> "ok", content |-> c, mtime |-> 1], None)

ProfileNext ==
    \/ OpenPlayerInfo
    \/ RetryClick
    \/ CloseWindow
    \/ WorkerDone
    \/ PollPlayerInfoResponses

ProfileSpec == ProfileInit /\ [][ProfileNext]_vars

\* the keys of the names the files of ProfileInit offer
LookupKeys == {<<"a">>, <<"b">>}

\* ProfileLiveSpec: ProfileSpec with the scheduling the program has: every
\* lookup thread runs until fetch_player_info returns (the operating system
\* schedules each thread), and update drains the channel on every UI cycle.
\* The user's clicks are not fair.
ProfileLiveSpec ==
    /\ ProfileInit
    /\ [][ProfileNext]_vars
    /\ \A key \in LookupKeys : WF_vars(WorkerDoneFor(key))
    /\ WF_vars(PollPlayerInfoResponses)

\* C2: at any time at most one profile-lookup request per canonical key is
\* outstanding (its thread running, or its response queued and not drained).
C2_SingleFlight ==
    \A key \in {workers[i].key : i \in 1..Len(workers)}
                 \cup {channel[i].key : i \in 1..Len(channel)} :
        Outstanding(key) <= 1

\* a Refresh or Retry has put a second request for a key in flight after the
\* first was drained, while a request for another key is outstanding, and
\* the key was opened under two spellings
C2_Witness ==
    /\ last_op = "retry"
    /\ \E k1, k2 \in DOMAIN player_info_cache :
          /\ k1 # k2
          /\ Outstanding(k1) = 1 /\ Outstanding(k2) = 1
          /\ player_info_window = Some(k1)
          /\ player_info_cache[k1].display_name # k1

----------------------------------------------------------------------------
(* ParseSpec: parse_log on every file of at most MaxLen lines over         *)
(* LineSet.  The application starts on such a file, the file grows by one  *)
(* line at a time, and the user reloads; ingested is the input of the      *)
(* parse_log call that produced events.                                    *)

AppendLine ==
    /\ Len(file.content) < MaxLen
    /\ \E l \in LineSet : file' = AppendTo(file, l)
    /\ ran_parse' = FALSE
    /\ last_op' = "write"
    /\ UNCHANGED <<appVars, viewVars, profVars>>

ParseInit ==
    \E c \in BoundedSeq(LineSet, MaxLen) :
        NewApp([status |-> "ok", content |-> c, mtime |-> 1], None)

ParseNext ==
    \/ AppendLine
    \/ ReloadClick
    \/ ReloadStat

ParseSpec == ParseInit /\ [][ParseNext]_vars

----------------------------------------------------------------------------
(* Claims about parse_log *)

\* line j of the file yields an event
Yields(lines, j) == parse_line(lines[j]) # None

\* the read loop pushed an event when it read line j
AcceptedAt(lines, j) ==
    Len(ReadLoop(SubSeq(lines, 1, j)).events)
        > Len(ReadLoop(SubSeq(lines, 1, j - 1)).events)

\* the nearest line before j that yields an event, if any, has other text
Fresh(lines, j) ==
    LET before == {k \in 1..(j - 1) : Yields(lines, k)}
    IN  before = {} \/ lines[CHOOSE k \in before : \A m \in before : m <= k] # lines[j]

\* the events of evs with timestamp t, in the order of evs
AtTime(evs, t) ==
    LET Test(e) == e.timestamp = t IN SelectSeq(evs, Test)

\* C6: in the list parse_log returns, an event with a greater timestamp
\* comes before one with a smaller timestamp, and events of equal timestamp
\* come in the reverse of their order in the file.
C6_NewestFirstTiesReversed ==
    LET accepted == ReadLoop(ingested).events IN
    /\ \A i, j \in 1..Len(events) :
          i < j => events[i].timestamp >= events[j].timestamp
    /\ \A t \in {accepted[i].timestamp : i \in 1..Len(accepted)}
               \cup {events[i].timestamp : i \in 1..Len(events)} :
          AtTime(events, t) = Reverse(AtTime(accepted, t))

\* a list holding two events of one timestamp and differing text next to an
\* event of another timestamp, which is not simply the file order reversed
C6_Witness ==
    /\ \E i, j, k \in 1..Len(events) :
          /\ i < j
          /\ events[i].timestamp = events[j].timestamp
          /\ events[i].raw # events[j].raw
          /\ events[k].timestamp # events[i].timestamp
    /\ events # Reverse(ReadLoop(ingested).events)

\* C7: two consecutive identical raw lines that match a grammar yield
\* exactly one event for the pair: the second line is never pushed, and once
\* the pair is read the accepted list ends with exactly one event of that
\* text; a file that is just the pair yields one event.
C7_AdjacentPairYieldsOneEvent ==
    \A j \in 1..(Len(ingested) - 1) :
        (ingested[j] = ingested[j + 1] /\ Yields(ingested, j)) =>
            LET acc == ReadLoop(SubSeq(ingested, 1, j + 1)).events IN
            /\ ~AcceptedAt(ingested, j + 1)
            /\ acc # <<>>
            /\ Last(acc).raw = ingested[j]
            /\ (Len(acc) >= 2 => acc[Len(acc) - 1].raw # ingested[j])
            /\ (Len(ingested) = 2 => Len(events) = 1)

\* a two-line file, the same grammar-matching line twice, shown as one event
C7_Witness ==
    /\ Len(ingested) = 2
    /\ ingested[1] = ingested[2]
    /\ Yields(ingested, 1)
    /\ Len(events) = 1
    /\ events[1].raw = ingested[1]

\* C8 as claimed: two identical grammar-matching lines with at least one
\* other line between them are both retained, whether or not a line between
\* them yields an event.
C8_NonAdjacentBothRetained ==
    \A i, j \in 1..Len(ingested) :
        (/\ i + 1 < j
         /\ ingested[i] = ingested[j]
         /\ Yields(ingested, i)
         /\ \A k \in (i + 1)..(j - 1) : ingested[k] # ingested[i]) =>
            AcceptedAt(ingested, i) /\ AcceptedAt(ingested, j)

\* C8 as amended: each of two non-adjacent identical grammar-matching lines
\* is retained exactly when the nearest preceding line that yields an event
\* (if any) has different text; so both are retained when that holds of
\* both, and the second is dropped when no line between them yields an event.
C8_RetainedIffPrecedingEventDiffers ==
    \A i, j \in 1..Len(ingested) :
        (i + 1 < j /\ ingested[i] = ingested[j] /\ Yields(ingested, i)) =>
            /\ AcceptedAt(ingested, i) <=> Fresh(ingested, i)
            /\ AcceptedAt(ingested, j) <=> Fresh(ingested, j)
            /\ (\A k \in (i + 1)..(j - 1) : ~Yields(ingested, k)) =>
                   ~AcceptedAt(ingested, j)

\* two identical lines around a line that yields another event, both shown
C8_Witness ==
    \E i, j \in 1..Len(ingested) :
        /\ i + 1 < j
        /\ ingested[i] = ingested[j]
        /\ Yields(ingested, i)
        /\ AcceptedAt(ingested, i) /\ AcceptedAt(ingested, j)
        /\ Cardinality({k \in 1..Len(events) : events[k].raw = ingested[i]}) >= 2

\* C9: a reload of a file whose bytes are those the event list was built
\* from leaves the event list (and the nickname-derived ignored player)
\* unchanged.
C9_ReloadOfUnchangedFileKeepsList ==
    [][(ran_parse' /\ load_error' = None /\ file.content = ingested) =>
          (events' = events /\ ignored_player' = ignored_player)]_vars

\* a reload has just re-read a file not written since it was last loaded
C9_Witness ==
    /\ last_op = "click" /\ ran_parse /\ pc = "stat"
    /\ last_modified = Some(file.mtime)
    /\ ingested = file.content
    /\ Len(events) >= 2

\* old with event e put in at the place its timestamp gives it: before every
\* event that is not newer
PlusOneByTimestamp(old, new, e) ==
    /\ Len(new) = Len(old) + 1
    /\ \E p \in 1..Len(new) :
          /\ new[p] = e
          /\ SubSeq(new, 1, p - 1) \o SubSeq(new, p + 1, Len(new)) = old
          /\ \A q \in 1..(p - 1) : new[q].timestamp > e.timestamp
          /\ \A q \in (p + 1)..Len(new) : new[q].timestamp <= e.timestamp

\* the step is a reload of the loaded file grown by one grammar-matching line
ReloadsOneMoreLine ==
    /\ ran_parse' /\ load_error' = None
    /\ file.content # <<>>
    /\ Front(file.content) = ingested
    /\ parse_line(Last(file.content)) # None

\* C10 as claimed: re-ingesting the file with one more trailing line that
\* matches a grammar yields the previous list plus exactly one new event,
\* placed by its timestamp.
C10_AppendedLineAddsOneEvent ==
    [][ReloadsOneMoreLine =>
          PlusOneByTimestamp(events, events', parse_line(Last(file.content))[1])]_vars

\* C10 as amended: ... unless the appended line is byte-identical to the
\* nearest preceding line that yields an event, in which case the list is
\* unchanged.
C10_AppendedLineAddsOneEventUnlessRepeat ==
    [][ReloadsOneMoreLine =>
          IF Fresh(file.content, Len(file.content))
          THEN PlusOneByTimestamp(events, events',
                                  parse_line(Last(file.content))[1])
          ELSE events' = events]_vars

\* a reload has just shown the file grown by one line since it was loaded,
\* the new event placed behind a newer one
C10_Witness ==
    /\ last_op = "click" /\ ran_parse /\ pc = "stat"
    /\ last_modified # None /\ file.mtime = last_modified[1] + 1
    /\ ingested = file.content
    /\ ingested # <<>>
    /\ parse_line(Last(ingested)) # None
    /\ PlusOneByTimestamp(ParseLines(Front(ingested)).events, events,
                          parse_line(Last(ingested))[1])
    /\ events[1] # parse_line(Last(ingested))[1]

----------------------------------------------------------------------------
(* GrammarSpec: parse_line on lines that hold up to two grammar-shaped     *)
(* fragments.  The log holds one such line; the user reloads and the poll  *)
(* tick runs as time passes.                                               *)

\* a Kill fragment with each optional part present (Some) or absent (None)
KillShape(zone, weapon, weapon_class, damage) ==
    [form |-> "Kill", victim |-> <<"b">>, victim_id |-> <<"1">>,
     killer |-> <<"A">>, killer_id |-> <<"2">>,
     zone |-> zone, weapon |-> weapon, weapon_class |-> weapon_class,
     damage |-> damage]

OptText(t) == {None, Some(t)}

KillFragments ==
    {KillShape(z, w, c, d) : z \in OptText(<<"z">>), w \in OptText(<<"w">>),
                             c \in OptText(<<"c">>), d \in OptText(<<"d">>)}

\* <Spawn Flow> ... Player 'a' [1] lost reservation for spawnpoint s [2] at location 3
SpawnSeg ==
    [form |-> "Spawn", player |-> <<"a">>, player_id |-> <<"1">>,
     spawnpoint |-> <<"s", " ">>, spawn_id |-> <<"2">>, location |-> <<"3">>]

\* moving zone hosted child id = 1 name = "a" to unblock removal of parent ...
ZoneSeg ==
    [form |-> "Zone", child_id |-> <<"1">>, player |-> <<"a">>,
     parent_id |-> <<"2">>, parent_name |-> <<"p">>,
     host_id |-> <<"3">>, host_name |-> <<"h">>]

\* Logged a start of a status effect! nickname: a, status effect: e
StatusSeg ==
    [form |-> "Status", stage |-> <<"s", "t", "a", "r", "t">>,
     nickname |-> <<"a">>, effect |-> <<"e">>]

\* <Debug Hostility Events> ... Fake hit FROM a TO b. Being sent to child c
HitSeg ==
    [form |-> "Hit", attacker |-> <<"a">>, target |-> <<"b">>, child |-> <<"c">>]

\* <Vehicle Destruction> ... Vehicle 'v' [1] ... driven by 'a' [2] ... caused by 'b' [3] with 'x'
VehicleSeg ==
    [form |-> "Vehicle", vehicle |-> <<"v">>, vehicle_id |-> <<"1">>,
     zone |-> <<"z">>, driver |-> <<"a">>, driver_id |-> <<"2">>,
     from |-> 0, to |-> 1,
     attacker |-> <<"b">>, attacker_id |-> <<"3">>, cause |-> <<"x">>]

\* ... driven by '' [2] ... : the same text with nothing between the quotes
VehicleSegNoDriver == [VehicleSeg EXCEPT !.driver = <<>>]

Yes == <<"Y", "e", "s">>

No == <<"N", "o">>

Fragments ==
    KillFragments
        \cup {CorpseSeg(<<"a">>, Yes), CorpseSeg(<<"a">>, No),
              SpawnSeg, ZoneSeg, StatusSeg, HitSeg, VehicleSeg, VehicleSegNoDriver}

\* no two fragments of a line have the same form
WellFormed(segs) == \A f, g \in segs : f.form = g.form => f = g

\* lines with a valid or an invalid leading token and at most two fragments
\* of different grammars
GrammarLines ==
    {[ts |-> Some(t), segs |-> fs, nick |-> None] :
        t \in {Tok(1, 0), BadTok},
        fs \in {x \in {{}} \cup {{f, g} : f, g \in Fragments} : WellFormed(x)}}

GrammarInit ==
    \E l \in GrammarLines :
        NewApp([status |-> "ok", content |-> <<l>>, mtime |-> 1], None)

GrammarNext ==
    \/ ReloadClick
    \/ ReloadStat
    \/ Advance
    \/ MaybeRefresh

GrammarSpec == GrammarInit /\ [][GrammarNext]_vars

----------------------------------------------------------------------------
(* Claims about the grammars *)

\* parse_line: the forms in the order of the or_else chain
GrammarOrder == <<"Kill", "Spawn", "Corpse", "Zone", "Status", "Hit", "Vehicle">>

\* the EventKind variant each grammar builds
VariantOf(form) ==
    CASE form = "Kill" -> "Kill"
      [] form = "Spawn" -> "SpawnReservation"
      [] form = "Corpse" -> "CorpseStatus"
      [] form = "Zone" -> "ZoneTransfer"
      [] form = "Status" -> "StatusEffect"
      [] form = "Hit" -> "Hit"
      [] form = "Vehicle" -> "VehicleDestruction"

\* RE.captures(line) of the grammar is Some
PatternMatches(line, form) ==
    LET m == Seg(line, form) IN
    /\ line.ts # None
    /\ m # None
    /\ CASE form = "Kill" -> KillMatches(m[1])
         [] form = "Spawn" -> SpawnMatches(m[1])
         [] form = "Corpse" -> CorpseMatches(m[1])
         [] form = "Zone" -> ZoneMatches(m[1])
         [] form = "Status" -> StatusMatches(m[1])
         [] form = "Hit" -> HitMatches(m[1])
         [] form = "Vehicle" -> VehicleMatches(m[1])

\* the position in GrammarOrder of the first grammar whose pattern matches
FirstMatching(line) ==
    LET hits == {i \in 1..Len(GrammarOrder) : PatternMatches(line, GrammarOrder[i])}
    IN  IF hits = {} THEN 0 ELSE CHOOSE i \in hits : \A j \in hits : i <= j

\* C11: the event parse_line returns for a line has the variant of the first
\* grammar, in the order Kill, Spawn, Corpse, ZoneTransfer, StatusEffect, Hit,
\* VehicleDestruction, whose pattern matches the line.
C11_ResolvesToFirstMatchingGrammar ==
    \A j \in 1..Len(ingested) :
        LET e == parse_line(ingested[j]) IN
        e # None =>
            /\ FirstMatching(ingested[j]) # 0
            /\ e[1].kind.tag = VariantOf(GrammarOrder[FirstMatching(ingested[j])])

\* a line whose first matching grammar is CorpseStatus with the flag Yes
CorpseYesLine(line) ==
    /\ FirstMatching(line) = 3
    /\ Seg(line, "Corpse")[1].enabled = Yes

\* C12: a line that CorpseStatus recognises with IsCorpseEnabled: Yes is not
\* passed to the later grammars: parse_line returns no event for it.
C12_CorpseYesConsumesLine ==
    \A j \in 1..Len(ingested) :
        CorpseYesLine(ingested[j]) => parse_line(ingested[j]) = None

\* a Kill-shaped line: valid timestamp, victim and killer with ids, and any
\* of zone, weapon (with or without its class) and damage type left out
KillShapedLine(line) ==
    /\ line.ts # None /\ line.ts[1].valid
    /\ \E s \in line.segs :
          /\ s.form = "Kill"
          /\ s.victim # <<>> /\ s.victim_id # <<>>
          /\ s.killer # <<>> /\ s.killer_id # <<>>
          /\ (s.weapon = None => s.weapon_class = None)

\* C14: every Kill-shaped line yields a Kill event whose omitted optional
\* fields are the empty string, whichever optional groups are absent.
C14_KillWithOmittedGroups ==
    \A j \in 1..Len(ingested) :
        KillShapedLine(ingested[j]) =>
            LET e == parse_line(ingested[j])
                s == Seg(ingested[j], "Kill")[1] IN
            /\ e # None
            /\ e[1].kind.tag = "Kill"
            /\ (s.zone = None => e[1].kind.zone = <<>>)
            /\ (s.weapon = None => e[1].kind.weapon = <<>>)
            /\ (s.weapon_class = None => e[1].kind.weapon_class = <<>>)
            /\ (s.damage = None => e[1].kind.damage_type = <<>>)

\* a line that holds nothing but a corpse fragment with the flag Yes
OnlyCorpseYes(line) ==
    /\ PatternMatches(line, "Corpse")
    /\ line.segs = {Seg(line, "Corpse")[1]}
    /\ Seg(line, "Corpse")[1].enabled = Yes

\* C13: every CorpseStatus event of the event list has corpse_enabled false,
\* and a file that holds only IsCorpseEnabled: Yes corpse lines gives an
\* empty event list.
C13_OnlyDisabledCorpseEvents ==
    /\ \A i \in 1..Len(events) :
          events[i].kind.tag = "CorpseStatus" => events[i].kind.corpse_enabled = FALSE
    /\ (ingested # <<>> /\ \A j \in 1..Len(ingested) : OnlyCorpseYes(ingested[j]))
          => events = <<>>

\* a file with a Yes line and a No line has been loaded: one corpse event
C13_Witness ==
    /\ last_op = "click"
    /\ \E j \in 1..Len(ingested) : OnlyCorpseYes(ingested[j])
    /\ \E i \in 1..Len(events) : events[i].kind.tag = "CorpseStatus"

\* the leading token of the line is no date-time with offset
BadTimestamp(line) == line.ts # None /\ ~line.ts[1].valid

\* the lines of a file whose leading token is not invalid
WithoutBadTimestamps(lines) ==
    LET Good(l) == ~BadTimestamp(l) IN SelectSeq(lines, Good)

\* C15: a line whose leading timestamp token is invalid yields no event under
\* any grammar; ingestion goes on without error and the event list is the
\* one the file gives without that line.
C15_BadTimestampLineSkipped ==
    /\ \A j \in 1..Len(ingested) :
          BadTimestamp(ingested[j]) => parse_line(ingested[j]) = None
    /\ ingested # <<>> =>
          /\ load_error = None
          /\ events = ParseLines(WithoutBadTimestamps(ingested)).events

\* a file with such a line between two lines that yield events was loaded
C15_Witness ==
    /\ last_op = "click"
    /\ Len(ingested) = 3
    /\ BadTimestamp(ingested[2])
    /\ ingested[2].segs # {}
    /\ Len(events) = 2
    /\ load_error = None

----------------------------------------------------------------------------
(* The filter engine: summary_line, detail_lines, search_blob,             *)
(* matches_search, should_ignore and filtered_events.  The fixed words of  *)
(* the formatted lines are shortened to one letter; the fields are whole.  *)

Sep == <<" ">>

\* str::to_lowercase, on the letters the model uses
ToLowercase(s) == [i \in 1..Len(s) |-> LowerChar(s[i])]

\* str::contains
Contains(hay, needle) ==
    \E i \in 0..(Len(hay) - Len(needle)) : SubSeq(hay, i + 1, i + Len(needle)) = needle

\* the concatenation of the texts of a sequence, each followed by a newline
RECURSIVE JoinLines(_)
JoinLines(texts) ==
    IF texts = <<>> THEN <<>>
    ELSE Head(texts) \o <<"\n">> \o JoinLines(Tail(texts))

summary_line(event) ==
    LET k == event.kind IN
    CASE k.tag = "Kill" ->
             <<"K">> \o Sep \o k.killer_name \o Sep \o k.victim_name \o Sep
                 \o (IF k.weapon = <<>> THEN <<"u">>
                     ELSE IF k.weapon_class = <<>> THEN k.weapon
                     ELSE k.weapon \o Sep \o k.weapon_class)
      [] k.tag = "SpawnReservation" -> <<"S">> \o Sep \o k.player_name \o Sep \o k.spawn_point
      [] k.tag = "CorpseStatus" ->
             <<"C">> \o Sep \o k.player_name \o Sep
                 \o (IF k.corpse_enabled THEN <<"e">> ELSE <<"d">>)
      [] k.tag = "ZoneTransfer" ->
             <<"Z">> \o Sep \o k.player_name \o Sep
                 \o (IF k.host_name # None /\ k.host_name[1] # <<>>
                     THEN k.host_name[1] ELSE <<"u">>)
      [] k.tag = "StatusEffect" -> <<"S">> \o Sep \o k.player_name \o Sep \o k.effect
      [] k.tag = "Hit" -> <<"H">> \o Sep \o k.attacker \o Sep \o k.target
      [] k.tag = "VehicleDestruction" ->
             <<"V">> \o Sep \o k.attacker_name \o Sep \o k.vehicle_name

detail_lines(event) ==
    LET k == event.kind IN
    CASE k.tag = "Kill" ->
             <<k.victim_name \o Sep \o k.victim_id \o Sep \o k.zone,
               k.killer_name \o Sep \o k.killer_id>>
                 \o (IF k.damage_type # <<>> THEN <<<<"D">> \o Sep \o k.damage_type>>
                     ELSE <<>>)
      [] k.tag = "SpawnReservation" ->
             <<k.player_name \o Sep \o k.player_id, k.spawn_point, k.spawn_id, k.location>>
      [] k.tag = "CorpseStatus" ->
             <<IF k.corpse_enabled THEN <<"E">> ELSE <<"D">>>>
                 \o (IF k.context # None /\ k.context[1] # <<>>
                     THEN <<k.context[1]>> ELSE <<>>)
      [] k.tag = "ZoneTransfer" ->
             <<k.player_name>>
                 \o (IF k.child_id # None THEN <<k.child_id[1]>> ELSE <<>>)
                 \o (IF k.parent_name # None /\ k.parent_name[1] # <<>>
                     THEN <<k.parent_name[1]>> ELSE <<>>)
                 \o (IF k.parent_id # None THEN <<k.parent_id[1]>> ELSE <<>>)
                 \o (IF k.host_name # None /\ k.host_name[1] # <<>>
                     THEN <<k.host_name[1]>> ELSE <<>>)
                 \o (IF k.host_id # None THEN <<k.host_id[1]>> ELSE <<>>)
      [] k.tag = "StatusEffect" -> <<k.player_name, k.effect, k.stage>>
      [] k.tag = "Hit" ->
             <<k.attacker, k.target>>
                 \o (IF k.child # None THEN <<k.child[1]>> ELSE <<>>)
      [] k.tag = "VehicleDestruction" ->
             <<k.vehicle_name \o Sep \o k.vehicle_id,
               k.attacker_name \o Sep \o k.attacker_id \o Sep \o k.cause>>
                 \o (IF k.zone # <<>> THEN <<k.zone>> ELSE <<>>)
                 \o (IF k.driver_name # <<>>
                     THEN <<k.driver_name \o Sep \o k.driver_id>> ELSE <<>>)

\* the text of a raw line that the summary and the details do not repeat:
\* its nickname token
RawText(line) == IF line.nick = None THEN <<>> ELSE line.nick[1]

search_blob(event) ==
    ToLowercase(summary_line(event)) \o <<"\n">>
        \o ToLowercase(JoinLines(detail_lines(event)))
        \o ToLowercase(RawText(event.raw))

matches_search(event, needle) ==
    LET trimmed == Trim(needle) IN
    IF trimmed = <<>> THEN TRUE ELSE Contains(search_blob(event), trimmed)

\* a Kill arm of should_ignore without the test on the victim
IgnoresKiller(kill, trimmed) == EqIgnoreAsciiCase(kill.killer_name, trimmed)

\* should_ignore, the Kill arm
IgnoresKill(kill, trimmed) ==
    /\ EqIgnoreAsciiCase(kill.killer_name, trimmed)
    /\ ~EqIgnoreAsciiCase(kill.victim_name, trimmed)

\* a VehicleDestruction arm of should_ignore that tests the attacker only
IgnoresVehicleAttacker(vehicle, trimmed) ==
    EqIgnoreAsciiCase(vehicle.attacker_name, trimmed)

\* should_ignore, the VehicleDestruction arm
IgnoresVehicle(vehicle, trimmed) ==
    \/ EqIgnoreAsciiCase(vehicle.attacker_name, trimmed)
    \/ (vehicle.driver_name # <<>> /\ EqIgnoreAsciiCase(vehicle.driver_name, trimmed))

should_ignore(event, ignored) ==
    LET trimmed == Trim(ignored)
        k == event.kind IN
    IF trimmed = <<>> THEN FALSE
    ELSE CASE k.tag = "Kill" -> IgnoresKill(k, trimmed)
           [] k.tag = "SpawnReservation" -> EqIgnoreAsciiCase(k.player_name, trimmed)
           [] k.tag = "CorpseStatus" -> EqIgnoreAsciiCase(k.player_name, trimmed)
           [] k.tag = "ZoneTransfer" -> EqIgnoreAsciiCase(k.player_name, trimmed)
           [] k.tag = "StatusEffect" -> EqIgnoreAsciiCase(k.player_name, trimmed)
           [] k.tag = "Hit" -> EqIgnoreAsciiCase(k.attacker, trimmed)
           [] k.tag = "VehicleDestruction" -> IgnoresVehicle(k, trimmed)

\* filtered_events, the three predicates of its filter calls
KindShown(event, shown) == shown[event.kind.tag]

NotIgnored(event, ignored) ==
    IF ignored = <<>> THEN TRUE ELSE ~should_ignore(event, ignored)

SearchMatches(event, search_lower) ==
    IF search_lower = <<>> THEN TRUE ELSE matches_search(event, search_lower)

\* filtered_events, the three filter calls
KindStage(evs, shown) ==
    LET Test(e) == KindShown(e, shown) IN SelectSeq(evs, Test)

\* an ignore stage that stops at the first ignored event
IgnoreStageUntilFirst(evs, ignored) ==
    LET hits == {i \in 1..Len(evs) : ~NotIgnored(evs[i], ignored)}
    IN  IF hits = {} THEN evs
        ELSE SubSeq(evs, 1, (CHOOSE i \in hits : \A j \in hits : i <= j) - 1)

IgnoreStage(evs, ignored) ==
    LET Test(e) == NotIgnored(e, ignored) IN SelectSeq(evs, Test)

\* a search stage that returns its matches oldest first
SearchStageOldestFirst(evs, search_lower) ==
    LET Test(e) == SearchMatches(e, search_lower) IN Reverse(SelectSeq(evs, Test))

SearchStage(evs, search_lower) ==
    LET Test(e) == SearchMatches(e, search_lower) IN SelectSeq(evs, Test)

filtered_events ==
    LET search_lower == ToLowercase(search_text)
        ignored == Trim(ignored_player)
    IN  SearchStage(IgnoreStage(KindStage(events, filter_show), ignored), search_lower)

\* the checkboxes the user clicks: those of the kinds the loaded files hold
ToggleKinds == {"Kill", "CorpseStatus", "Hit"}

\* update: a click on one of the "Show ..." checkboxes
ToggleFilter ==
    /\ pc = "idle"
    /\ \E k \in ToggleKinds : filter_show' = [filter_show EXCEPT ![k] = ~@]
    /\ ran_parse' = FALSE
    /\ last_op' = "toggle"
    /\ UNCHANGED <<search_text, rendered>>
    /\ UNCHANGED <<fsVars, appVars, profVars>>

\* the texts typed into the "Ignore player" field
IgnoredInputs == {<<"a">>, <<" ", "A">>, <<"b">>, <<" ">>}

\* update: the "Ignore player" field changed; persist_ignored_player
EditIgnored ==
    /\ pc = "idle"
    /\ \E t \in IgnoredInputs : t # ignored_player /\ ignored_player' = t
    /\ ignored_player_user_override' = TRUE
    /\ ran_parse' = FALSE
    /\ last_op' = "ignore"
    /\ UNCHANGED <<file_path_input, events, load_error, last_modified, elapsed,
                   pc, ingested>>
    /\ UNCHANGED <<fsVars, viewVars, profVars>>

\* update: the Clear button next to the field; persist_ignored_player
ClearIgnored ==
    /\ pc = "idle"
    /\ ignored_player' = <<>>
    /\ ignored_player_user_override' = TRUE
    /\ ran_parse' = FALSE
    /\ last_op' = "clear"
    /\ UNCHANGED <<file_path_input, events, load_error, last_modified, elapsed,
                   pc, ingested>>
    /\ UNCHANGED <<fsVars, viewVars, profVars>>

\* the texts typed into the "Search" field
SearchInputs == {<<>>, <<"A">>, <<"b">>, <<" ">>, <<"d">>}

\* update: the "Search" field is edited
EditSearch ==
    /\ pc = "idle"
    /\ \E t \in SearchInputs : t # search_text /\ search_text' = t
    /\ ran_parse' = FALSE
    /\ last_op' = "search"
    /\ UNCHANGED <<filter_show, rendered>>
    /\ UNCHANGED <<fsVars, appVars, profVars>>

\* update: the central panel takes filtered_events(&self) and draws it
Render ==
    /\ pc = "idle"
    /\ rendered' = filtered_events
    /\ ran_parse' = FALSE
    /\ last_op' = "render"
    /\ UNCHANGED <<filter_show, search_text>>
    /\ UNCHANGED <<fsVars, appVars, profVars>>

\* <..03:00Z> ... CActor::Kill: 'a' [1] killed by 'A' [2] with damage type 'd'
LineSelfKill == [ts |-> Some(Tok(3, 0)), segs |-> {KillSeg(<<"a">>, <<"A">>)}, nick |-> None]

\* <..01:00Z> <Debug Hostility Events> ... Fake hit FROM a TO b. Being sent to child c
LineHit == [ts |-> Some(Tok(1, 0)), segs |-> {HitSeg}, nick |-> None]

\* ViewSpec: a loaded file with a self-kill, a kill and, in one of the two
\* files, a corpse line and a hit; the user works the filter controls and
\* the panel is drawn.
ViewInit ==
    \E c \in {<<LineHit, LineKillEarly, LineCorpseNo, LineSelfKill>>,
              <<LineSelfKill, LineSelfKill, LineKillLate>>} :
    \E setting \in {None, Some(<<"A">>)} :
        NewApp([status |-> "ok", content |-> c, mtime |-> 1], setting)

ViewNext ==
    \/ ToggleFilter
    \/ EditIgnored
    \/ ClearIgnored
    \/ EditSearch
    \/ Render

ViewSpec == ViewInit /\ [][ViewNext]_vars

----------------------------------------------------------------------------
(* Claims about the filter engine *)

\* a Kill event whose killer and victim are the same name, whatever the case
SelfKill(event) ==
    /\ event.kind.tag = "Kill"
    /\ EqIgnoreAsciiCase(event.kind.killer_name, event.kind.victim_name)

\* C16: a Kill event whose killer name equals its victim name without regard
\* to ASCII case is never removed by the ignored-actor filter, whatever the
\* ignored name, the killer's own name included.
C16_SelfKillNeverIgnored ==
    \A i \in 1..Len(events) :
        SelfKill(events[i]) =>
            /\ \A t \in IgnoredInputs \cup {ignored_player} :
                  /\ ~should_ignore(events[i], t)
                  /\ events[i] \in Range(IgnoreStage(events, Trim(t)))
            /\ (last_op = "render" /\ KindShown(events[i], filter_show)
                    /\ SearchMatches(events[i], ToLowercase(search_text)))
                  => events[i] \in Range(rendered)

\* the panel was drawn with the self-kill's killer as the ignored name (in
\* another case, with a blank before it): the self-kill is on it, the
\* killer's other kill is not
C16_Witness ==
    /\ last_op = "render"
    /\ ignored_player = <<" ", "A">>
    /\ \E i \in 1..Len(events) : SelfKill(events[i]) /\ events[i] \in Range(rendered)
    /\ \E i \in 1..Len(events) :
          /\ events[i].kind.tag = "Kill"
          /\ KindShown(events[i], filter_show)
          /\ events[i] \notin Range(rendered)

\* s can be obtained from t by deleting elements
RECURSIVE IsSubsequence(_, _)
IsSubsequence(s, t) ==
    IF s = <<>> THEN TRUE
    ELSE IF t = <<>> THEN FALSE
    ELSE IF Head(s) = Head(t) THEN IsSubsequence(Tail(s), Tail(t))
    ELSE IsSubsequence(s, Tail(t))

\* C17: filtered_events returns a subsequence of the event list in the same
\* relative order, changes no application state, and returns the same list
\* when called again with no state change in between.
C17_FilteredEventsPureSubsequence ==
    [][last_op' = "render" =>
          /\ IsSubsequence(rendered', events)
          /\ UNCHANGED <<fsVars, appVars, profVars, filter_show, search_text>>
          /\ (last_op = "render" => rendered' = rendered)]_vars

\* the panel was drawn twice in a row with a list that keeps at least two
\* events and drops at least one
C17_Witness ==
    /\ last_op = "render"
    /\ Len(rendered) >= 2
    /\ Len(rendered) < Len(events)
    /\ rendered = filtered_events

\* the three predicates of filtered_events together
PassesAll(event) ==
    /\ KindShown(event, filter_show)
    /\ NotIgnored(event, Trim(ignored_player))
    /\ SearchMatches(event, ToLowercase(search_text))

StageK(evs) == KindStage(evs, filter_show)

StageI(evs) == IgnoreStage(evs, Trim(ignored_player))

StageS(evs) == SearchStage(evs, ToLowercase(search_text))

\* C18: an event is in the output of filtered_events exactly when it passes
\* the kind toggle, the ignore test and the search test, and the three
\* filters applied in any of the six orders give the same list.
C18_FilterOrderIrrelevant ==
    /\ filtered_events = SelectSeq(events, PassesAll)
    /\ filtered_events = StageS(StageI(StageK(events)))
    /\ filtered_events = StageI(StageS(StageK(events)))
    /\ filtered_events = StageS(StageK(StageI(events)))
    /\ filtered_events = StageK(StageS(StageI(events)))
    /\ filtered_events = StageI(StageK(StageS(events)))
    /\ filtered_events = StageK(StageI(StageS(events)))

\* each of the three predicates alone drops an event the other two keep,
\* and one event passes all three
C18_Witness ==
    /\ last_op = "render"
    /\ rendered # <<>>
    /\ \E i \in 1..Len(events) :
          ~KindShown(events[i], filter_show)
              /\ NotIgnored(events[i], Trim(ignored_player))
              /\ SearchMatches(events[i], ToLowercase(search_text))
    /\ \E i \in 1..Len(events) :
          KindShown(events[i], filter_show)
              /\ ~NotIgnored(events[i], Trim(ignored_player))
              /\ SearchMatches(events[i], ToLowercase(search_text))
    /\ \E i \in 1..Len(events) :
          KindShown(events[i], filter_show)
              /\ NotIgnored(events[i], Trim(ignored_player))
              /\ ~SearchMatches(events[i], ToLowercase(search_text))

----------------------------------------------------------------------------
(* Claims about the profile cache entries *)

\* the state tag of the key's entry, "Absent" when the cache has none
TagOf(cache, key) ==
    IF key \in DOMAIN cache THEN cache[key].state.tag ELSE "Absent"

\* the steps of the per-key state machine; a new entry is inserted as
\* NotLoaded and set to Loading by the same call of open_player_info
EntryStep(key) ==
    LET old == TagOf(player_info_cache, key)
        new == TagOf(player_info_cache', key) IN
    \/ /\ old # "Absent"
       /\ player_info_cache'[key].state = player_info_cache[key].state
    \/ old \in {"Absent", "NotLoaded"} /\ new = "Loading" /\ last_op' \in {"open", "retry"}
    \/ old = "Loading" /\ new \in {"Loaded", "Error"} /\ last_op' = "poll"
    \/ old \in {"Loaded", "Error"} /\ new = "Loading" /\ last_op' \in {"open", "retry"}

\* C19: every cache entry moves NotLoaded -> Loading -> Loaded or Error, and
\* from Loaded or Error back to Loading only by a click of the user; no
\* entry moves between Loaded and Error directly, returns to NotLoaded or
\* leaves the cache.
C19_EntryStateMachine ==
    [][\A key \in (DOMAIN player_info_cache) \cup (DOMAIN player_info_cache') :
          EntryStep(key)]_vars

\* a Refresh or Retry has put an entry back to Loading while another entry
\* holds an error
C19_Witness ==
    /\ last_op = "retry"
    /\ \E k1, k2 \in DOMAIN player_info_cache :
          /\ player_info_window = Some(k1)
          /\ player_info_cache[k1].state = Loading
          /\ player_info_cache[k2].state.tag = "Error"

\* the keys of the queued responses
QueuedKeys == {channel[i].key : i \in 1..Len(channel)}

\* C20: draining the responses changes only the cache entries of the keys of
\* the drained responses; the event list, load_error, last_modified, the
\* filter criteria, the window and every other entry stay as they were.
C20_DrainTouchesOnlyItsEntries ==
    [][last_op' = "poll" =>
          /\ UNCHANGED <<fsVars, appVars, viewVars, player_info_window, workers>>
          /\ DOMAIN player_info_cache' = (DOMAIN player_info_cache) \cup QueuedKeys
          /\ \A key \in (DOMAIN player_info_cache) \ QueuedKeys :
                player_info_cache'[key] = player_info_cache[key]]_vars

\* a drain has stored a result for one key while the entry of another key,
\* whose request is still running, is Loading as before
C20_Witness ==
    /\ last_op = "poll"
    /\ events # <<>>
    /\ \E k1, k2 \in DOMAIN player_info_cache :
          /\ player_info_cache[k1].state.tag \in {"Loaded", "Error"}
          /\ player_info_cache[k2].state = Loading
          /\ Outstanding(k2) = 1

----------------------------------------------------------------------------
(* IgnoreSpec: the ignored player between the settings, the nickname found *)
(* by ingestion and the user's edits.  The game appends lines (one of them *)
(* carries a nickname), the user reloads, edits the field and clears it.   *)

IgnoreInit ==
    \E c \in BoundedSeq(WriterLines, 1) :
    \E setting \in {None, Some(<<>>), Some(<<"a">>)} :
        NewApp([status |-> "ok", content |-> c, mtime |-> 1], setting)

IgnoreNext ==
    \/ WriteLog
    \/ ReloadClick
    \/ ReloadStat
    \/ EditIgnored
    \/ ClearIgnored

IgnoreSpec == IgnoreInit /\ [][IgnoreNext]_vars

\* the first nickname of the lines, as parse_log finds it
FirstNickname(lines) == ReadLoop(lines).primary_nickname

\* C21: the nickname found by ingestion sets the ignored player only while
\* the override flag is unset; the flag, once set (by a stored setting, an
\* edit or Clear), is never reset, and with the flag set no reload changes
\* the ignored player.
C21_OverrideStopsAutoIgnore ==
    [][/\ ignored_player_user_override => ignored_player_user_override'
       /\ (ran_parse' /\ ignored_player_user_override)
             => ignored_player' = ignored_player
       /\ (ran_parse' /\ ignored_player' # ignored_player)
             => /\ ~ignored_player_user_override
                /\ FirstNickname(file.content) # None
                /\ ignored_player' = Trim(FirstNickname(file.content)[1])]_vars

\* with the flag set by an edit or Clear, a file that carries a nickname was
\* reloaded and the ignored player is not that nickname
C21_Witness ==
    /\ last_op = "click"
    /\ ignored_player_user_override
    /\ FirstNickname(ingested) # None
    /\ ignored_player # Trim(FirstNickname(ingested)[1])
    /\ events # <<>>

----------------------------------------------------------------------------
(* Claims about the vehicle grammar *)

\* a line with a valid timestamp whose only fragment is vehicle-shaped with
\* an empty driver name
VehicleLineNoDriver(line) ==
    /\ line.ts # None /\ line.ts[1].valid
    /\ \E s \in line.segs :
          /\ line.segs = {s}
          /\ s.form = "Vehicle"
          /\ s.driver = <<>>
          /\ s.vehicle # <<>> /\ s.vehicle_id # <<>> /\ s.zone # <<>>
          /\ s.attacker # <<>> /\ s.attacker_id # <<>> /\ s.cause # <<>>

\* C22: a VehicleDestruction-shaped line with an empty driver name yields a
\* VehicleDestruction event whose driver name is the empty string.
C22_VehicleWithoutDriver ==
    \A j \in 1..Len(ingested) :
        VehicleLineNoDriver(ingested[j]) =>
            LET e == parse_line(ingested[j]) IN
            /\ e # None
            /\ e[1].kind.tag = "VehicleDestruction"
            /\ e[1].kind.driver_name = <<>>

----------------------------------------------------------------------------
(* Claims about the order of profile responses *)

\* the entry a response leaves in the cache
EntryOf(message) ==
    [display_name |-> message.display_name,
     state |-> IF message.result.tag = "Success"
               THEN Loaded(message.result.val)
               ELSE Error(message.result.val)]

\* the last queued response for the key
LastQueued(key) ==
    channel[CHOOSE i \in 1..Len(channel) :
                /\ channel[i].key = key
                /\ \A j \in 1..Len(channel) : channel[j].key = key => j <= i]

\* the arrival orders of the queued responses that keep the order of the
\* responses of each key
Interleavings ==
    LET n == Len(channel)
        perms == {p \in [1..n -> 1..n] : \A i, j \in 1..n : p[i] = p[j] => i = j}
        keeps == {p \in perms :
                    \A i, j \in 1..n :
                        (i < j /\ channel[p[i]].key = channel[p[j]].key) => p[i] < p[j]}
    IN  {[i \in 1..n |-> channel[p[i]]] : p \in keeps}

\* the responses a lookup thread can send for the entries of the cache
Responses ==
    {[key |-> k, display_name |-> player_info_cache[k].display_name, result |-> r] :
        k \in DOMAIN player_info_cache, r \in FetchResults}

\* C23: after a drain every key with a queued response holds the result of
\* the last response that arrived for it, and the cache is the same for
\* every interleaving of the responses of different keys; the same holds for
\* the loop run on any two responses, two for one key included.
C23_LastResponseWins ==
    [][last_op' = "poll" =>
          /\ \A key \in QueuedKeys : player_info_cache'[key] = EntryOf(LastQueued(key))
          /\ \A order \in Interleavings :
                Drain(player_info_cache, order) = player_info_cache'
          /\ \A m1, m2 \in Responses :
                /\ Drain(player_info_cache, <<m1, m2>>)[m2.key] = EntryOf(m2)
                /\ m1.key # m2.key =>
                      /\ Drain(player_info_cache, <<m1, m2>>)[m1.key] = EntryOf(m1)
                      /\ Drain(player_info_cache, <<m1, m2>>)
                            = Drain(player_info_cache, <<m2, m1>>)]_vars

\* the drains have stored a profile for one key and an error for another,
\* and no request is left
C23_Witness ==
    /\ last_op = "poll"
    /\ workers = <<>>
    /\ \E k1, k2 \in DOMAIN player_info_cache :
          /\ player_info_cache[k1].state.tag = "Loaded"
          /\ player_info_cache[k2].state.tag = "Error"
          /\ player_info_cache[k1].display_name # k1

----------------------------------------------------------------------------
(* Claims about the effects of reload *)

\* C24: a reload that parses the file replaces the event list by the
\* ingestion result of the file and clears the load error; its metadata read
\* then records the modification time the file has at that moment, and keeps
\* the recorded one only if the read fails.
C24_SuccessfulReloadReplaces ==
    [][/\ (ran_parse' /\ file.status = "ok") =>
             /\ events' = ParseLines(file.content).events
             /\ load_error' = None
             /\ last_modified' = last_modified
       /\ last_op' = "stat" =>
             /\ events' = events
             /\ load_error' = None
             /\ file.status # "missing" => last_modified' = Some(file.mtime)
             /\ file.status = "missing" => last_modified' = last_modified]_vars

\* a reload of a file written after start-up has ended: the list holds the
\* events of the file, no error is shown and the recorded time is the file's
C24_Witness ==
    /\ last_op = "stat"
    /\ load_error = None
    /\ events # <<>>
    /\ events = ParseLines(file.content).events
    /\ file.mtime > 1
    /\ last_modified = Some(file.mtime)

\* a path field that holds white space only, or a pair of double or single
\* quotes around white space only
BlankField(raw) ==
    LET t == Trim(raw) IN
    \/ t = <<>>
    \/ /\ Len(t) >= 2
       /\ t[1] = t[Len(t)]
       /\ t[1] \in {"\"", "'"}
       /\ \A i \in 2..(Len(t) - 1) : IsWhitespace(t[i])

\* C25: a reload with a blank path field (white space, or a pair of quotes
\* around white space) empties the event list, shows "No log file selected."
\* and forgets the modification time, without reading any file; a tick with
\* such a field changes nothing but the time of the last check.
C25_EmptyPathReloadClearsTickDoesNot ==
    [][/\ (last_op' = "click" /\ BlankField(file_path_input)) =>
             /\ events' = <<>>
             /\ load_error' = Some("No log file selected.")
             /\ last_modified' = None
             /\ ~ran_parse'
             /\ UNCHANGED <<file_path_input, ignored_player,
                            ignored_player_user_override, pc>>
       /\ (last_op' = "tick" /\ BlankField(file_path_input)) =>
             /\ UNCHANGED <<file_path_input, events, ignored_player,
                            ignored_player_user_override, load_error,
                            last_modified, pc>>
             /\ ~ran_parse'
             /\ UNCHANGED <<fsVars, viewVars, profVars>>]_vars

\* a reload with a blank field has emptied the list of a file that holds
\* events, and the file is still there
C25_Witness ==
    /\ last_op = "click"
    /\ BlankField(file_path_input)
    /\ events = <<>>
    /\ load_error = Some("No log file selected.")
    /\ last_modified = None
    /\ file.status = "ok"
    /\ ParseLines(file.content).events # <<>>

\* a due tick with a blank field has left the list, the error and the
\* modification time of the last load, and has reset the time of the check
C25_TickWitness ==
    /\ last_op = "tick"
    /\ BlankField(file_path_input)
    /\ events # <<>>
    /\ last_modified # None
    /\ elapsed = 0

----------------------------------------------------------------------------
(* Claims about the cadence of the refresh coordinator *)

\* C26: a tick before the interval has elapsed changes no state at all; a
\* tick once it has elapsed, and every reload, started by the user or by the
\* tick, resets the time of the last check.
C26_TickAndReloadResetLastCheck ==
    [][/\ (last_op' = "tick" /\ elapsed < AUTO_REFRESH_INTERVAL) =>
             UNCHANGED <<fsVars, appVars, viewVars, profVars>>
       /\ (last_op' = "tick" /\ ~(elapsed < AUTO_REFRESH_INTERVAL) /\ pc' = "idle") =>
             elapsed' = 0
       /\ (last_op' = "click" /\ pc' = "idle") => elapsed' = 0
       /\ last_op' = "stat" => elapsed' = 0]_vars

----------------------------------------------------------------------------
(* ActorSpec: the ignored-player filter on events of every variant.  The   *)
(* log holds two lines out of one per variant; the user edits and clears   *)
(* the "Ignore player" field and the panel is drawn.                       *)

\* one line per variant, with a Kill by another player, a self-kill, and a
\* vehicle destroyed by its own driver
ActorLines ==
    {[ts |-> Some(Tok(1, 0)), segs |-> {f}, nick |-> None] :
        f \in {KillSeg(<<"b">>, <<"A">>), KillSeg(<<"a">>, <<"A">>),
               SpawnSeg, CorpseSeg(<<"a">>, No), ZoneSeg, StatusSeg, HitSeg,
               VehicleSeg, [VehicleSeg EXCEPT !.driver = <<"b">>]}}

ActorInit ==
    \E c \in [1..2 -> ActorLines] :
        NewApp([status |-> "ok", content |-> c, mtime |-> 1], None)

ActorNext ==
    \/ EditIgnored
    \/ ClearIgnored
    \/ Render

ActorSpec == ActorInit /\ [][ActorNext]_vars

\* the names of an event that the ignored-player filter compares
IgnoreRelevantActors(event) ==
    LET k == event.kind IN
    IF k.tag = "Kill" THEN {k.killer_name}
    ELSE IF k.tag \in {"SpawnReservation", "CorpseStatus", "ZoneTransfer",
                        "StatusEffect"} THEN {k.player_name}
    ELSE IF k.tag = "Hit" THEN {k.attacker}
    ELSE {k.attacker_name} \cup ({k.driver_name} \ {<<>>})

\* the claim's condition for dropping the event
Dropped(event, ignored) ==
    LET name == Trim(ignored) IN
    /\ name # <<>>
    /\ \E actor \in IgnoreRelevantActors(event) :
          ToAsciiLowercase(actor) = ToAsciiLowercase(name)
    /\ event.kind.tag = "Kill" =>
          ToAsciiLowercase(event.kind.victim_name) # ToAsciiLowercase(name)

\* C27: with every kind shown and no search text, the drawn list is the
\* event list without exactly the events whose ignore-relevant actor equals
\* the trimmed, non-empty ignored name without regard to ASCII case (killer
\* of a Kill unless the name is also the victim's; player of a spawn, corpse,
\* zone or status event; attacker of a Hit; attacker or non-empty driver of
\* a VehicleDestruction); a blank ignored name drops nothing.
C27_IgnoredActorFilterExact ==
    (last_op = "render" /\ search_text = <<>> /\ \A k \in EventKinds : filter_show[k]) =>
        LET Kept(e) == ~Dropped(e, ignored_player) IN
        /\ rendered = SelectSeq(events, Kept)
        /\ \A n \in 1..Len(events) :
              should_ignore(events[n], ignored_player) = Dropped(events[n], ignored_player)
        /\ Trim(ignored_player) = <<>> => rendered = events

\* the panel was drawn with an ignored name that drops a vehicle event by its
\* driver and keeps a Kill whose victim has the name
C27_Witness ==
    /\ last_op = "render"
    /\ Len(events) = 2
    /\ Len(rendered) = 1
    /\ Trim(ignored_player) # <<>>
    /\ \E n \in 1..2 :
          /\ events[n].kind.tag = "VehicleDestruction"
          /\ EqIgnoreAsciiCase(events[n].kind.driver_name, Trim(ignored_player))
          /\ ~EqIgnoreAsciiCase(events[n].kind.attacker_name, Trim(ignored_player))
    /\ rendered[1].kind.tag = "Kill"
    /\ EqIgnoreAsciiCase(rendered[1].kind.victim_name, Trim(ignored_player))

----------------------------------------------------------------------------
(* PlayersSpec: the names offered for a profile lookup.  The log holds one *)
(* line whose quoted names are spelled in different case, padded, blank or *)
(* "unknown"; the user clicks the names of the event while lookup threads  *)
(* finish and the UI cycle drains.                                         *)

\* the names between the quotes of a Kill or Vehicle Destruction line
QuotedNames ==
    {<<"a">>, <<"A">>, <<" ", "a">>, <<"b">>, <<" ">>, Unknown,
     <<"u", "n", "K", "n", "o", "w", "n">>}

PlayerLines ==
    {[ts |-> Some(Tok(1, 0)), segs |-> {f}, nick |-> None] :
        f \in {KillSeg(v, k) : v, k \in QuotedNames}
               \cup {[VehicleSeg EXCEPT !.driver = d, !.attacker = a] :
                        d, a \in QuotedNames}
               \cup {SpawnSeg, CorpseSeg(<<"a">>, No), ZoneSeg, StatusSeg, HitSeg}}

PlayersInit ==
    \E l \in PlayerLines :
        NewApp([status |-> "ok", content |-> <<l>>, mtime |-> 1], None)

PlayersNext ==
    \/ OpenPlayerInfo
    \/ CloseWindow
    \/ WorkerDone
    \/ PollPlayerInfoResponses

PlayersSpec == PlayersInit /\ [][PlayersNext]_vars

\* the names of the event in the fixed order of its variant
NamesInOrder(event) ==
    LET k == event.kind IN
    IF k.tag = "Kill" THEN <<k.killer_name, k.victim_name>>
    ELSE IF k.tag = "VehicleDestruction" THEN <<k.attacker_name, k.driver_name>>
    ELSE IF k.tag = "Hit" THEN <<k.attacker>>
    ELSE <<k.player_name>>

\* a name that can be listed: not blank and not "unknown" in any case
Listable(name) ==
    /\ Trim(name) # <<>>
    /\ ToAsciiLowercase(Trim(name)) # Unknown

\* C28: the list of involved_players holds trimmed names in the fixed order
\* of the variant, none empty, none equal to "unknown" and no two equal
\* without regard to ASCII case (a self-kill lists the name once); every
\* listable name of the event is listed under its first spelling, and a
\* click opens the window on one of the listed names.
C28_InvolvedPlayersDedupOrdered ==
    /\ \A n \in 1..Len(events) :
          LET listed == involved_players(events[n])
              names == NamesInOrder(events[n])
              trimmed == [i \in 1..Len(names) |-> Trim(names[i])]
          IN  /\ IsSubsequence(listed, trimmed)
              /\ \A i \in 1..Len(listed) :
                    /\ Trim(listed[i]) = listed[i]
                    /\ Listable(listed[i])
                    /\ \A j \in 1..Len(listed) :
                          ToAsciiLowercase(listed[i]) = ToAsciiLowercase(listed[j])
                              => i = j
              /\ \A i \in 1..Len(names) :
                    Listable(names[i]) =>
                        \E j \in 1..Len(listed) :
                            /\ ToAsciiLowercase(listed[j]) = ToAsciiLowercase(trimmed[i])
                            /\ \A h \in 1..(i - 1) :
                                  ToAsciiLowercase(trimmed[h]) = ToAsciiLowercase(trimmed[i])
                                      => listed[j] = trimmed[h]
                            /\ (\A h \in 1..(i - 1) :
                                  ToAsciiLowercase(trimmed[h]) # ToAsciiLowercase(trimmed[i]))
                                      => listed[j] = trimmed[i]
    /\ last_op = "open" =>
          /\ player_info_window # None
          /\ \E n \in 1..Len(events) :
             \E m \in 1..Len(involved_players(events[n])) :
                player_info_window[1]
                    = ToAsciiLowercase(involved_players(events[n])[m])

\* the one name of a Kill whose killer and victim differ in spelling only
\* was clicked and its lookup is running
C28_Witness ==
    /\ last_op = "open"
    /\ \E n \in 1..Len(events) :
          /\ events[n].kind.tag = "Kill"
          /\ events[n].kind.killer_name # events[n].kind.victim_name
          /\ Listable(events[n].kind.killer_name)
          /\ involved_players(events[n]) = <<Trim(events[n].kind.killer_name)>>
          /\ player_info_window = Some(ToAsciiLowercase(Trim(events[n].kind.killer_name)))
    /\ Len(workers) = 1

----------------------------------------------------------------------------
(* Claims about Loading entries and outstanding requests *)

\* the keys with a lookup thread running or a response queued
RequestedKeys ==
    {workers[i].key : i \in 1..Len(workers)}
        \cup {channel[i].key : i \in 1..Len(channel)}

\* an entry is Loading exactly when one request for its key is outstanding,
\* every outstanding request has an entry, and no entry is NotLoaded
LoadingIffOutstanding ==
    /\ RequestedKeys \subseteq DOMAIN player_info_cache
    /\ \A key \in DOMAIN player_info_cache :
          /\ (player_info_cache[key].state = Loading) = (Outstanding(key) = 1)
          /\ Outstanding(key) \in {0, 1}
          /\ player_info_cache[key].state # NotLoaded

\* C29: in every reachable state an entry is Loading exactly when one
\* request for its key is outstanding (its thread running or its response
\* queued); a drain stores a response only into an entry that is Loading,
\* and no entry is NotLoaded between operations.
C29_LoadingIffOneOutstanding ==
    [][/\ LoadingIffOutstanding
       /\ LoadingIffOutstanding'
       /\ last_op' = "poll" =>
             \A key \in QueuedKeys :
                /\ key \in DOMAIN player_info_cache
                /\ player_info_cache[key].state = Loading
                /\ player_info_cache'[key].state.tag \in {"Loaded", "Error"}]_vars

\* one entry is Loading with its thread running, another is Loading with
\* its response queued, after a request for a key that had been loaded
C29_Witness ==
    /\ last_op = "retry"
    /\ \E k1, k2 \in DOMAIN player_info_cache :
          /\ player_info_cache[k1].state = Loading
          /\ player_info_cache[k2].state = Loading
          /\ \E i \in 1..Len(workers) : workers[i].key = k1
          /\ \E i \in 1..Len(channel) : channel[i].key = k2
          /\ Outstanding(k1) = 1 /\ Outstanding(k2) = 1

\* the entry of the key is in one of the states
EntryIn(key, tags) ==
    /\ key \in DOMAIN player_info_cache
    /\ player_info_cache[key].state.tag \in tags

\* C30: with every lookup thread returning and the UI cycle draining, every
\* entry that is Loading eventually becomes Loaded or Error; a thread that
\* ends has sent exactly one response, for its key, and a drain leaves no
\* response in the channel.
C30_LoadingEventuallySettles ==
    /\ \A key \in LookupKeys :
          EntryIn(key, {"Loading"}) ~> EntryIn(key, {"Loaded", "Error"})
    /\ [][(last_op' = "done" =>
                /\ Len(workers') = Len(workers) - 1
                /\ Len(channel') = Len(channel) + 1
                /\ Front(channel') = channel
                /\ \E key \in LookupKeys :
                      /\ Last(channel').key = key
                      /\ Outstanding(key)' = Outstanding(key))
           /\ (last_op' = "poll" => channel' = <<>>)]_vars

\* every name was looked up, one lookup has failed, and all requests have
\* been answered and drained
C30_Witness ==
    /\ last_op = "poll"
    /\ workers = <<>> /\ channel = <<>>
    /\ DOMAIN player_info_cache = LookupKeys
    /\ \A key \in LookupKeys : EntryIn(key, {"Loaded", "Error"})
    /\ \E key \in LookupKeys : EntryIn(key, {"Error"})

============================================================================
